---- MODULE Spec2Model ----
(***************************************************************************)
(* A model of src/index.js: the react-three-fiber host layer.              *)
(*                                                                         *)
(*   - the frame loop and the subscriber list of Canvas (SpecLoop, and     *)
(*     SpecLoopFair with frame delivery assumed fair)                      *)
(*   - pointer picking: hover, unhover and click dispatch (SpecPick)       *)
(*   - the reconciler's host operations on the scene graph (SpecTree,      *)
(*     SpecLeaf)                                                           *)
(*   - applyProps on one Object3D instance (SpecProps, SpecHandlers)       *)
(*   - the root table of render / unmountComponentAtNode (SpecRoots)       *)
(***************************************************************************)
EXTENDS Integers, Sequences, FiniteSets, TLC

(***************************************************************************)
(* Bounds of the model.                                                    *)
(***************************************************************************)
\* number of distinct callbacks handed to subscribe
NumFns == 2
\* longest subscriber list the model builds
MaxSubs == 3
\* longest intersection list one pointer event produces
MaxHits == 2
\* longest structural child list the model builds
MaxChildren == 3
\* longest construction-argument list of a data object
MaxArgs == 1
\* number of underlying resources constructed for the data object
MaxRes == 2
\* largest number a prop or a field holds
MaxNum == 1
\* number of roots createContainer makes
MaxRoots == 3

VARIABLES
  \* ---- Canvas frame loop (src/index.js 197-247)
  lifecycle,     \* "new" before the mount effect, "mounted", "unmounted"
  active,        \* state.current.active
  subscribers,   \* state.current.subscribers, a sequence of callbacks
  unsubs,        \* callbacks for which an unsubscribe closure has been returned
  scheduled,     \* requestAnimationFrame callbacks not fired yet
  hasOnUpdate,   \* the onUpdate prop was supplied
  hasRenderFn,   \* the render prop was supplied
  tickLog,       \* the calls the most recent operation made, in order (<<>> unless it was a tick)
  tickThrew,     \* the most recent operation was a tick ended by an exception
  removed,       \* callbacks unsubscribed and not subscribed again since
  loopLast,      \* the most recent loop operation and its argument
  loopPre,       \* the subscriber list an unsubscribe call found (<<>> after other operations)
  frame,         \* flips each time the host runs the frame callback
  \* ---- Canvas pointer picking (src/index.js 216, 257-299, 313-323)
  hasTable,      \* per object: it carries __handlers
  handlersOf,    \* per object: the event kinds its __handlers holds
  cursor,        \* the cursor state of useState('default')
  renderPending, \* a state update asked for a render whose effects have not run yet
  lCursor,       \* the cursor value the installed handleMove closed over
  hovered,       \* the hovered map of the installed handleMove, in insertion order
  hoverLog,      \* hover calls of the most recent pointer event: <<object, index in the list>>
  unhoverLog,    \* unhover calls of the most recent pointer event
  clickLog,      \* click calls of the most recent pointer event: <<object, index in the list>>
  curHits,       \* the objects in the intersection list of the most recent move event
  prevHits,      \* after a move: the objects in the list of the move event before it
  lit,           \* objects that received hover and were in every move's list since
  litPre,        \* after a move: lit before it
  pickLast,      \* the most recent picking operation and its intersection list
  pickPre,       \* after a click: the hovered map before it
  \* ---- the scene graph and the data object (src/index.js 64-140)
  children,      \* per Object3D: its children array
  parentOf,      \* per Object3D: its parent field ("null" when it has none)
  field,         \* per Object3D and field name: the resource the named field refers to (0: none)
  leafCurrent,   \* the placeholder's current: the underlying resource
  leafParent,    \* the placeholder's parent ("undefined" when it has none)
  resName,       \* the name field of the placeholder's current resource
  resArgs,       \* the arguments the placeholder's current resource was constructed with
  leafProps,     \* the props the data object was last rendered with: [name, args]
  logical,       \* per Object3D: the children the reconciler has asked for, in order
  nextRes,       \* the next resource to construct
  treeLast,      \* the most recent host operation: <<operation, parent, child, beforeChild>>
  treePre,       \* what an insertBefore or a commitUpdate found (<<>> after other operations)
  \* ---- one Object3D instance under applyProps (src/index.js 23-62)
  heap,          \* per object and field name: the value of the field
  handlerTable,  \* instance.__handlers: [present, table]
  lastProps,     \* the props the instance was last rendered with, in key order
  updateCalls,   \* the update handlers the most recent applyProps called
  propsThrew,    \* the most recent applyProps ended by a TypeError
  propsOp,       \* the most recent operation on the instance
  \* ---- the root table (src/index.js 20, 167-180)
  roots,         \* the Map: a set of <<container, root>> entries
  rootElement,   \* per root: the element it renders ("null" once emptied, "none" before it exists)
  deleting,      \* the containers whose roots.delete callback is waiting for its commit
  nextRoot,      \* the root the next createContainer makes
  rootLast       \* the most recent render / unmountComponentAtNode call

loopVars == <<lifecycle, active, subscribers, unsubs, scheduled, hasOnUpdate,
              hasRenderFn, tickLog, tickThrew, removed, loopLast, loopPre, frame>>

pickVars == <<hasTable, handlersOf, cursor, renderPending, lCursor, hovered, hoverLog,
              unhoverLog, clickLog, curHits, prevHits, lit, litPre, pickLast, pickPre>>

treeVars == <<children, parentOf, field, leafCurrent, leafParent, resName, resArgs,
              leafProps, logical, nextRes, treeLast, treePre>>

propVars == <<heap, handlerTable, lastProps, updateCalls, propsThrew, propsOp>>

rootVars == <<roots, rootElement, deleting, nextRoot, rootLast>>

vars == <<loopVars, pickVars, treeVars, propVars, rootVars>>

\* what the operations of one component leave alone
notLoop == <<pickVars, treeVars, propVars, rootVars>>
notPick == <<loopVars, treeVars, propVars, rootVars>>
notTree == <<loopVars, pickVars, propVars, rootVars>>
notProps == <<loopVars, pickVars, treeVars, rootVars>>
notRoots == <<loopVars, pickVars, treeVars, propVars>>

(***************************************************************************)
(* Helpers on sequences.                                                   *)
(***************************************************************************)
Range(s) == {s[i] : i \in 1..Len(s)}

\* Array.prototype.indexOf, 1-based; 0 stands for JavaScript's -1
IndexOf(s, x) ==
  IF x \in Range(s) THEN CHOOSE i \in 1..Len(s) : s[i] = x /\ \A j \in 1..(i-1) : s[j] # x
  ELSE 0

\* Array.prototype.indexOf as JavaScript counts: from 0, -1 when absent
JsIndexOf(s, x) == IndexOf(s, x) - 1

\* Array.prototype.slice(from, to) as JavaScript counts: from 0, to excluded,
\* a negative index counted from the end
JsSlice(s, from, to) ==
  LET norm(k) == IF k < 0 THEN (IF Len(s) + k < 0 THEN 0 ELSE Len(s) + k)
                 ELSE (IF k > Len(s) THEN Len(s) ELSE k)
      a == norm(from)
      b == norm(to)
  IN IF a >= b THEN <<>> ELSE SubSeq(s, a + 1, b)

\* Array.prototype.splice(index, 1)
RemoveAt(s, i) == SubSeq(s, 1, i - 1) \o SubSeq(s, i + 1, Len(s))

IsPrefix(s, t) == Len(s) <= Len(t) /\ SubSeq(t, 1, Len(s)) = s

(***************************************************************************)
(* The frame loop.                                                         *)
(***************************************************************************)
Fns == 1..NumFns

EvRaf      == <<"requestAnimationFrame", 0>>
EvOnUpdate == <<"onUpdate", 0>>
EvSub(f)   == <<"subscriber", f>>
EvRenderFn == <<"renderFn", 0>>
EvGlRender == <<"gl.render", 0>>

\* renderLoop: the calls one tick makes, in order, when nothing throws
RenderLoopNoCheck(act, hook, subs, custom) ==
  <<EvRaf>>
    \o (IF hook THEN <<EvOnUpdate>> ELSE <<>>)
    \o [i \in 1..Len(subs) |-> EvSub(subs[i])]
    \o (IF custom THEN <<EvRenderFn>> ELSE <<EvGlRender>>)

RenderLoopDrawFirst(act, hook, subs, custom) ==
  IF ~act THEN <<>>
  ELSE <<EvRaf>>
    \o (IF custom THEN <<EvRenderFn>> ELSE <<EvGlRender>>)
    \o (IF hook THEN <<EvOnUpdate>> ELSE <<>>)
    \o [i \in 1..Len(subs) |-> EvSub(subs[i])]

\* a frame that asks for the next frame after its calls instead of before them
RenderLoopRafLast(act, hook, subs, custom) ==
  IF ~act THEN <<>>
  ELSE (IF hook THEN <<EvOnUpdate>> ELSE <<>>)
    \o [i \in 1..Len(subs) |-> EvSub(subs[i])]
    \o (IF custom THEN <<EvRenderFn>> ELSE <<EvGlRender>>)
    \o <<EvRaf>>

RenderLoop(act, hook, subs, custom) ==
  IF ~act THEN <<>>
  ELSE <<EvRaf>>
    \o (IF hook THEN <<EvOnUpdate>> ELSE <<>>)
    \o [i \in 1..Len(subs) |-> EvSub(subs[i])]
    \o (IF custom THEN <<EvRenderFn>> ELSE <<EvGlRender>>)

\* state.current.subscribers.filter(s => s === fn)
UnsubscribeFilter(subs, fn) ==
  LET keep(s) == s = fn IN SelectSeq(subs, keep)

InitLoop ==
  /\ lifecycle = "new"
  /\ active = TRUE
  /\ subscribers = <<>>
  /\ unsubs = {}
  /\ scheduled = 0
  /\ hasOnUpdate \in BOOLEAN
  /\ hasRenderFn \in BOOLEAN
  /\ tickLog = <<>>
  /\ tickThrew = FALSE
  /\ removed = {}
  /\ loopLast = <<"init", 0>>
  /\ loopPre = <<>>
  /\ frame = FALSE

\* the picking state of a freshly mounted Canvas whose scene objects carry no handlers
PickIdle ==
  /\ hasTable = [n \in {"meshA", "meshB"} |-> FALSE]
  /\ handlersOf = [n \in {"meshA", "meshB"} |-> {}]
  /\ cursor = "default"
  /\ renderPending = FALSE
  /\ lCursor = "default"
  /\ hovered = <<>>
  /\ hoverLog = <<>>
  /\ unhoverLog = <<>>
  /\ clickLog = <<>>
  /\ curHits = {}
  /\ prevHits = {}
  /\ lit = {}
  /\ litPre = {}
  /\ pickLast = <<"init", <<>> >>
  /\ pickPre = <<>>

\* the mount effect: requestAnimationFrame(renderLoop)
Mount ==
  /\ lifecycle = "new"
  /\ lifecycle' = "mounted"
  /\ scheduled' = scheduled + 1
  /\ tickLog' = <<>>
  /\ tickThrew' = FALSE
  /\ loopLast' = <<"mount", 0>>
  /\ UNCHANGED frame
  /\ loopPre' = <<>>
  /\ UNCHANGED <<active, subscribers, unsubs, hasOnUpdate, hasRenderFn, removed>>
  /\ UNCHANGED notLoop

\* the mount effect's clean-up
Unmount ==
  /\ lifecycle = "mounted"
  /\ lifecycle' = "unmounted"
  /\ active' = FALSE
  /\ tickLog' = <<>>
  /\ tickThrew' = FALSE
  /\ loopLast' = <<"unmount", 0>>
  /\ UNCHANGED frame
  /\ loopPre' = <<>>
  /\ UNCHANGED <<subscribers, unsubs, scheduled, hasOnUpdate, hasRenderFn, removed>>
  /\ UNCHANGED notLoop

\* The host fires one scheduled frame callback. thrower is the position, in
\* the tick's calls, of the callback that throws (0: none throws); the
\* request for the next frame itself does not throw.
Tick(thrower) ==
  /\ scheduled > 0
  /\ LET full == RenderLoop(active, hasOnUpdate, subscribers, hasRenderFn)
         done == IF thrower = 0 THEN full ELSE SubSeq(full, 1, thrower)
     IN /\ thrower = 0 \/ (2 <= thrower /\ thrower <= Len(full))
        /\ tickLog' = done
        /\ tickThrew' = (thrower # 0)
        /\ scheduled' = (scheduled - 1) + Cardinality({i \in 1..Len(done) : done[i] = EvRaf})
  /\ loopLast' = <<"tick", 0>>
  /\ frame' = ~frame
  /\ loopPre' = <<>>
  /\ UNCHANGED <<lifecycle, active, subscribers, unsubs, hasOnUpdate, hasRenderFn, removed>>
  /\ UNCHANGED notLoop

\* state.current.subscribe(fn); subscribe reaches callers through the context
\* the render effect provides, which runs after the mount effect
Subscribe(fn) ==
  /\ lifecycle # "new"
  /\ Len(subscribers) < MaxSubs
  /\ subscribers' = Append(subscribers, fn)
  /\ unsubs' = unsubs \cup {fn}
  /\ removed' = removed \ {fn}
  /\ tickLog' = <<>>
  /\ tickThrew' = FALSE
  /\ loopLast' = <<"subscribe", fn>>
  /\ UNCHANGED frame
  /\ loopPre' = <<>>
  /\ UNCHANGED <<lifecycle, active, scheduled, hasOnUpdate, hasRenderFn>>
  /\ UNCHANGED notLoop

\* the function subscribe(fn) returned is called
Unsubscribe(fn) ==
  /\ fn \in unsubs
  /\ subscribers' = UnsubscribeFilter(subscribers, fn)
  /\ removed' = removed \cup {fn}
  /\ tickLog' = <<>>
  /\ tickThrew' = FALSE
  /\ loopLast' = <<"unsubscribe", fn>>
  /\ UNCHANGED frame
  /\ loopPre' = subscribers
  /\ UNCHANGED <<lifecycle, active, unsubs, scheduled, hasOnUpdate, hasRenderFn>>
  /\ UNCHANGED notLoop

NextLoop ==
  \/ Mount
  \/ Unmount
  \/ \E thrower \in 0..(MaxSubs + 3) : Tick(thrower)
  \/ \E fn \in Fns : Subscribe(fn)
  \/ \E fn \in Fns : Unsubscribe(fn)

(***************************************************************************)
(* Pointer picking.                                                        *)
(***************************************************************************)
\* the scene objects the ray can hit, by uuid
Nodes == {"meshA", "meshB"}
HandlerKinds == {"hover", "unhover", "click"}

\* every intersection list of at most MaxHits hits; an object may be hit more than once
HitLists == UNION {[1..k -> Nodes] : k \in 0..MaxHits}

Count(log, n) == Cardinality({i \in 1..Len(log) : log[i][1] = n})

\* intersect: the positions of the list whose object carries __handlers,
\* the ones the callback is called with, in list order
RECURSIVE Intersect(_, _, _)
Intersect(hits, tables, i) ==
  IF i > Len(hits) THEN <<>>
  ELSE (IF tables[hits[i]] THEN <<i>> ELSE <<>>) \o Intersect(hits, tables, i + 1)

\* handleMove's intersect callback folded over the filtered hits:
\* st is [hover, hovered, calls]
RECURSIVE MoveCallback(_, _, _, _)
MoveCallback(hits, idx, kinds, st) ==
  IF idx = <<>> THEN st
  ELSE LET i == Head(idx)
           object == hits[i]
           next == IF "hover" \in kinds[object]
                   THEN [hover |-> TRUE,
                         hovered |-> IF object \in Range(st.hovered) THEN st.hovered
                                     ELSE Append(st.hovered, object),
                         calls |-> IF object \in Range(st.hovered) THEN st.calls
                                   ELSE Append(st.calls, <<object, i>>)]
                   ELSE st
       IN MoveCallback(hits, Tail(idx), kinds, next)

\* handleMove's loop over Object.values(hovered): st is [hovered, calls]
RECURSIVE UnhoverLoop(_, _, _, _)
UnhoverLoop(values, hits, kinds, st) ==
  IF values = <<>> THEN st
  ELSE LET object == Head(values)
           gone == hits = <<>> \/ object \notin Range(hits)
           keep(o) == o # object
           next == IF gone
                   THEN [hovered |-> SelectSeq(st.hovered, keep),
                         calls |-> IF "unhover" \in kinds[object]
                                   THEN Append(st.calls, <<object, 0>>) ELSE st.calls]
                   ELSE st
       IN UnhoverLoop(Tail(values), hits, kinds, next)

\* onClick's intersect callback folded over the filtered hits:
\* st is [clicked, calls]
RECURSIVE ClickCallbackNoDedup(_, _, _, _)
ClickCallbackNoDedup(hits, idx, kinds, st) ==
  IF idx = <<>> THEN st
  ELSE LET i == Head(idx)
           object == hits[i]
           next == IF "click" \in kinds[object]
                   THEN [clicked |-> st.clicked \cup {object},
                         calls |-> Append(st.calls, <<object, i>>)]
                   ELSE st
       IN ClickCallbackNoDedup(hits, Tail(idx), kinds, next)

RECURSIVE ClickCallback(_, _, _, _)
ClickCallback(hits, idx, kinds, st) ==
  IF idx = <<>> THEN st
  ELSE LET i == Head(idx)
           object == hits[i]
           next == IF "click" \in kinds[object] /\ object \notin st.clicked
                   THEN [clicked |-> st.clicked \cup {object},
                         calls |-> Append(st.calls, <<object, i>>)]
                   ELSE st
       IN ClickCallback(hits, Tail(idx), kinds, next)

\* the picking state after the first render of a Canvas: the scene objects
\* got their handler tables from applyProps, the first handleMove is installed
InitPick ==
  /\ hasTable \in [Nodes -> BOOLEAN]
  /\ handlersOf \in [Nodes -> SUBSET HandlerKinds]
  /\ \A n \in Nodes : ~hasTable[n] => handlersOf[n] = {}
  /\ cursor = "default"
  /\ renderPending = FALSE
  /\ lCursor = "default"
  /\ hovered = <<>>
  /\ hoverLog = <<>>
  /\ unhoverLog = <<>>
  /\ clickLog = <<>>
  /\ curHits = {}
  /\ prevHits = {}
  /\ lit = {}
  /\ litPre = {}
  /\ pickLast = <<"init", <<>> >>
  /\ pickPre = <<>>

\* a mousemove event reaches the installed handleMove
HandleMove(hits) ==
  LET idx == Intersect(hits, hasTable, 1)
      cb == MoveCallback(hits, idx, handlersOf,
                         [hover |-> FALSE, hovered |-> hovered, calls |-> <<>>])
      want == IF cb.hover THEN "pointer" ELSE "default"
      \* cursor !== want && setCursor(want); a set to the current state is dropped
      set == lCursor # want /\ cursor # want
      un == UnhoverLoop(cb.hovered, hits, handlersOf,
                        [hovered |-> cb.hovered, calls |-> <<>>])
  IN /\ hovered' = un.hovered
     /\ hoverLog' = cb.calls
     /\ unhoverLog' = un.calls
     /\ clickLog' = <<>>
     /\ cursor' = IF set THEN want ELSE cursor
     /\ renderPending' = (renderPending \/ set)
     /\ curHits' = Range(hits)
     /\ prevHits' = curHits
     /\ lit' = (lit \cup {cb.calls[i][1] : i \in 1..Len(cb.calls)}) \cap Range(hits)
     /\ litPre' = lit
     /\ pickLast' = <<"move", hits>>
     /\ pickPre' = <<>>
     /\ UNCHANGED <<hasTable, handlersOf, lCursor>>
     /\ UNCHANGED notPick

\* a click event reaches the onClick of the rendered div
OnClick(hits) ==
  LET idx == Intersect(hits, hasTable, 1)
      cb == ClickCallback(hits, idx, handlersOf, [clicked |-> {}, calls |-> <<>>])
  IN /\ clickLog' = cb.calls
     /\ hoverLog' = <<>>
     /\ unhoverLog' = <<>>
     /\ litPre' = {}
     /\ prevHits' = {}
     /\ pickLast' = <<"click", hits>>
     /\ pickPre' = hovered
     /\ UNCHANGED <<hasTable, handlersOf, cursor, renderPending, lCursor, hovered, curHits, lit>>
     /\ UNCHANGED notPick

\* useMeasure's ResizeObserver sets the bounds state: a render is asked for
Resize ==
  /\ ~renderPending
  /\ renderPending' = TRUE
  /\ hoverLog' = <<>>
  /\ unhoverLog' = <<>>
  /\ clickLog' = <<>>
  /\ litPre' = {}
  /\ prevHits' = {}
  /\ pickLast' = <<"resize", <<>> >>
  /\ pickPre' = <<>>
  /\ UNCHANGED <<hasTable, handlersOf, cursor, lCursor, hovered, curHits, lit>>
  /\ UNCHANGED notPick

\* Canvas renders again and its effects run: the old handleMove is removed,
\* a new one is installed with a new hovered map and the current cursor
RenderEffects ==
  /\ renderPending
  /\ renderPending' = FALSE
  /\ lCursor' = cursor
  /\ hovered' = <<>>
  /\ hoverLog' = <<>>
  /\ unhoverLog' = <<>>
  /\ clickLog' = <<>>
  /\ litPre' = {}
  /\ prevHits' = {}
  /\ pickLast' = <<"render", <<>> >>
  /\ pickPre' = <<>>
  /\ UNCHANGED <<hasTable, handlersOf, cursor, curHits, lit>>
  /\ UNCHANGED notPick

NextPick ==
  \/ \E hits \in HitLists : HandleMove(hits)
  \/ \E hits \in HitLists : OnClick(hits)
  \/ Resize
  \/ RenderEffects

\* the loop state of a Canvas that is not mounted yet
LoopIdle ==
  /\ InitLoop
  /\ hasOnUpdate = FALSE
  /\ hasRenderFn = FALSE

(***************************************************************************)
(* The reconciler's host operations on the scene graph.                    *)
(***************************************************************************)
\* the Object3D instances, the data-object placeholder, the field names a
\* data object is exposed under, and the construction-argument lists
Objects == {"group", "meshA", "meshB", "meshC"}
Leaves == {"leaf"}
Instances == Objects \cup Leaves
Names == {"geometry", "material"}
ArgLists == UNION {[1..k -> {1, 2}] : k \in 0..MaxArgs}
PropSets == [name : Names, args : ArgLists]

\* THREE.Object3D.remove(object), as parentInstance.remove(child) relies on
\* it: the first occurrence is spliced out and the object's parent is reset
Object3DRemove(g, p, object) ==
  LET index == JsIndexOf(g.children[p], object)
  IN IF index # -1
     THEN [children |-> [g.children EXCEPT ![p] = RemoveAt(@, index + 1)],
           parentOf |-> [g.parentOf EXCEPT ![object] = "null"]]
     ELSE g

\* THREE.Object3D.add(object), as parentInstance.add(child) relies on it: the
\* object leaves its current parent, then is pushed onto this.children
Object3DAdd(g, p, object) ==
  IF object = p THEN g
  ELSE LET g1 == IF g.parentOf[object] # "null"
                 THEN Object3DRemove(g, g.parentOf[object], object)
                 ELSE g
       IN [children |-> [g1.children EXCEPT ![p] = Append(@, object)],
           parentOf |-> [g1.parentOf EXCEPT ![object] = p]]

\* insertBefore, the Object3D branch: the child is put at indexOf(beforeChild)
HostInsertAfter(g, p, child, beforeChild) ==
  LET index == JsIndexOf(g.children[p], beforeChild)
      cs == g.children[p]
  IN [children |-> [g.children EXCEPT ![p] =
                      JsSlice(cs, 0, index + 1) \o <<child>> \o JsSlice(cs, index + 1, Len(cs))],
      parentOf |-> [g.parentOf EXCEPT ![child] = p]]

HostInsertBefore(g, p, child, beforeChild) ==
  LET index == JsIndexOf(g.children[p], beforeChild)
      cs == g.children[p]
  IN [children |-> [g.children EXCEPT ![p] =
                      JsSlice(cs, 0, index) \o <<child>> \o JsSlice(cs, index, Len(cs))],
      parentOf |-> [g.parentOf EXCEPT ![child] = p]]

\* argsNew.some((value, index) => value !== argsOld[index])
ArgsDiffer(argsNew, argsOld) ==
  \E i \in 1..Len(argsNew) : i > Len(argsOld) \/ argsNew[i] # argsOld[i]

\* The element tree being rendered: a group holding three meshes and one data
\* object. The reconciler never moves an instance to another parent, so every
\* request names the parent the element tree gives the child.
Home == [meshA |-> "group", meshB |-> "group", meshC |-> "group", leaf |-> "group"]

Placeable(p, c) == c \in DOMAIN Home /\ p = Home[c]

\* what the reconciler knows: the parent it has put an instance under
LogicalParent(c) ==
  IF \E p \in Objects : c \in Range(logical[p])
  THEN CHOOSE p \in Objects : c \in Range(logical[p])
  ELSE "none"

Without(seq, x) == LET other(y) == y # x IN SelectSeq(seq, other)

NoCalls(op, p, c, b) ==
  [op |-> op, parent |-> p, child |-> c, before |-> b, created |-> 0, removed |-> 0,
   threw |-> FALSE]

\* a scene of detached objects and a data object just created from its props
InitTree ==
  /\ children = [o \in Objects |-> <<>>]
  /\ parentOf = [o \in Objects |-> "null"]
  /\ field = [o \in Objects |-> [n \in Names |-> 0]]
  /\ leafCurrent = 1
  /\ leafParent = "undefined"
  /\ leafProps \in PropSets
  /\ resName = leafProps.name
  /\ resArgs = leafProps.args
  /\ logical = [o \in Objects |-> <<>>]
  /\ nextRes = 2
  /\ treeLast = NoCalls("init", "none", "none", "none")
  /\ treePre = <<>>

\* the tree state while another component is looked at
TreeIdle ==
  /\ InitTree
  /\ leafProps = [name |-> "geometry", args |-> <<>>]

\* appendChild that puts every child, data objects too, on the child list
AppendChildPushAll(p, child) ==
  /\ Placeable(p, child)
  /\ Len(children[p]) < MaxChildren
  /\ children' = [children EXCEPT ![p] = Append(@, child)]
  /\ IF child \in Objects
     THEN /\ parentOf' = [parentOf EXCEPT ![child] = p]
          /\ UNCHANGED <<field, leafParent>>
     ELSE /\ leafParent' = p
          /\ field' = [field EXCEPT ![p][resName] = leafCurrent]
          /\ UNCHANGED parentOf
  /\ logical' = [logical EXCEPT ![p] = Append(Without(@, child), child)]
  /\ treeLast' = NoCalls("appendChild", p, child, "none")
  /\ treePre' = <<>>
  /\ UNCHANGED <<leafCurrent, resName, resArgs, leafProps, nextRes>>
  /\ UNCHANGED notTree

\* appendChild(parentInstance, child)
AppendChild(p, child) ==
  /\ Placeable(p, child)
  /\ IF child \in Objects
     THEN /\ Len(children[p]) < MaxChildren
          /\ LET g == Object3DAdd([children |-> children, parentOf |-> parentOf], p, child)
             IN /\ children' = g.children
                /\ parentOf' = g.parentOf
          /\ UNCHANGED <<field, leafParent>>
     ELSE \* child.current.name is a non-empty string: the named field is set
          /\ leafParent' = p
          /\ field' = [field EXCEPT ![p][resName] = leafCurrent]
          /\ UNCHANGED <<children, parentOf>>
  /\ logical' = [logical EXCEPT ![p] = Append(Without(@, child), child)]
  /\ treeLast' = NoCalls("appendChild", p, child, "none")
  /\ treePre' = <<>>
  /\ UNCHANGED <<leafCurrent, resName, resArgs, leafProps, nextRes>>
  /\ UNCHANGED notTree

\* removeChild(parentInstance, child)
RemoveChild(p, child) ==
  /\ p \in Objects
  /\ child \in Range(logical[p])
  /\ IF child \in Objects
     THEN /\ LET g == Object3DRemove([children |-> children, parentOf |-> parentOf], p, child)
             IN /\ children' = g.children
                /\ parentOf' = g.parentOf
          /\ UNCHANGED leafParent
     ELSE /\ leafParent' = "undefined"
          /\ UNCHANGED <<children, parentOf>>
  /\ logical' = [logical EXCEPT ![p] = Without(@, child)]
  /\ treeLast' = NoCalls("removeChild", p, child, "none")
  /\ treePre' = <<>>
  /\ UNCHANGED <<field, leafCurrent, resName, resArgs, leafProps, nextRes>>
  /\ UNCHANGED notTree

\* insertBefore(parentInstance, child, beforeChild): beforeChild is a child the
\* reconciler has under parentInstance, other than child
InsertBefore(p, child, beforeChild) ==
  /\ Placeable(p, child)
  /\ beforeChild \in Range(logical[p])
  /\ beforeChild # child
  /\ IF child \in Objects
     THEN /\ Len(children[p]) < MaxChildren
          /\ LET g == HostInsertBefore([children |-> children, parentOf |-> parentOf],
                                       p, child, beforeChild)
             IN /\ children' = g.children
                /\ parentOf' = g.parentOf
          /\ UNCHANGED leafParent
     ELSE /\ leafParent' = p
          /\ UNCHANGED <<children, parentOf>>
  /\ logical' = [logical EXCEPT ![p] =
                   LET rest == Without(@, child)
                       at == IndexOf(rest, beforeChild)
                   IN SubSeq(rest, 1, at - 1) \o <<child>> \o SubSeq(rest, at, Len(rest))]
  /\ treeLast' = NoCalls("insertBefore", p, child, beforeChild)
  /\ treePre' = children[p]
  /\ UNCHANGED <<field, leafCurrent, resName, resArgs, leafProps, nextRes>>
  /\ UNCHANGED notTree

\* commitUpdate(instance, ..., oldProps, newProps) on the mounted data object;
\* oldProps are the props of its last render
CommitUpdate(newProps) ==
  /\ LogicalParent("leaf") # "none"
  /\ newProps # leafProps
  /\ LET parent == leafParent
         last == [NoCalls("commitUpdate", parent, "leaf", "none") EXCEPT !.created = 0]
     IN IF ArgsDiffer(newProps.args, leafProps.args)
        THEN \* createInstance, removeChild(parent, instance), appendChild(parent, newInstance)
             /\ nextRes <= MaxRes
             /\ nextRes' = nextRes + 1
             /\ IF parent = "undefined"
                THEN \* appendChild reads parentInstance.isObject3D of undefined
                     /\ treeLast' = [last EXCEPT !.created = 1, !.removed = 1, !.threw = TRUE]
                     /\ leafParent' = "undefined"
                     /\ UNCHANGED <<field, leafCurrent, resName, resArgs>>
                ELSE /\ treeLast' = [last EXCEPT !.created = 1, !.removed = 1]
                     /\ field' = [field EXCEPT ![parent][newProps.name] = nextRes]
                     /\ leafCurrent' = nextRes
                     /\ leafParent' = parent
                     /\ resName' = newProps.name
                     /\ resArgs' = newProps.args
        ELSE \* applyProps(instance.current, restNew, restOld)
             /\ treeLast' = last
             /\ resName' = newProps.name
             /\ UNCHANGED <<field, leafCurrent, leafParent, resArgs, nextRes>>
  /\ treePre' = [current |-> leafCurrent, parent |-> leafParent, props |-> leafProps]
  /\ leafProps' = newProps
  /\ UNCHANGED <<children, parentOf, logical>>
  /\ UNCHANGED notTree

\* the placement requests for the whole element tree, its props unchanged
NextTree ==
  \/ \E p \in Objects, c \in Instances : AppendChild(p, c)
  \/ \E p \in Objects, c \in Instances : RemoveChild(p, c)
  \/ \E p \in Objects, c \in Instances, b \in Instances : InsertBefore(p, c, b)

\* the requests about the data object and one sibling mesh, props changing
LeafSiblings == {"leaf", "meshA"}

NextLeaf ==
  \/ \E p \in Objects, c \in LeafSiblings : AppendChild(p, c)
  \/ \E p \in Objects, c \in LeafSiblings : RemoveChild(p, c)
  \/ \E p \in Objects, c \in LeafSiblings, b \in LeafSiblings : InsertBefore(p, c, b)
  \/ \E newProps \in PropSets : CommitUpdate(newProps)

(***************************************************************************)
(* applyProps on one Object3D instance.                                    *)
(***************************************************************************)
\* JavaScript values: a tag and a payload
Undef == <<"undef", "">>
Num(n) == <<"num", n>>
Fn(f) == <<"fn", f>>
\* a reference to an object with set and copy (a THREE.Vector2)
Vec(id) == <<"vec", id>>
\* a reference to an object without set (the Object3D itself)
Obj(id) == <<"obj", id>>
\* the outcome of reading a property of undefined
TypeError == <<"TypeError", "">>

\* the instance, its position vector, and a vector handed in as a prop value
ObjIds == {"inst", "pos", "val"}
FieldKeys == {"position-x", "position", "visible", "foo-x"}
HandlerKeys == {"onClick", "onUpdate", "visible"}
FieldNames == {"position-x", "position", "visible", "foo-x", "foo", "x", "y"}
Callbacks == {"f", "g"}

\* key.split('-')
Split(key) ==
  CASE key = "position-x" -> <<"position", "x">>
    [] key = "foo-x" -> <<"foo", "x">>
    [] OTHER -> <<key>>

\* key.startsWith('on')
StartsWithOn(key) == key \in {"onClick", "onUpdate"}

\* key.charAt(2).toLowerCase() + key.substr(3)
HandlerName(key) ==
  CASE key = "onClick" -> "click"
    [] key = "onUpdate" -> "update"
    [] OTHER -> key
HandlerNames == {"click", "update"}

Truthy(v) == v[1] \in {"vec", "obj", "fn"} \/ (v[1] = "num" /\ v[2] # 0)

\* target.set is there
HasSet(v) == v[1] = "vec"

\* acc[key] that reads undefined from undefined instead of throwing
GetPropLenient(h, acc, key) ==
  CASE acc[1] \in {"vec", "obj"} -> h[acc[2]][key]
    [] OTHER -> Undef

\* acc[key]
GetProp(h, acc, key) ==
  CASE acc[1] \in {"vec", "obj"} -> h[acc[2]][key]
    [] acc[1] \in {"undef", "TypeError"} -> TypeError
    [] OTHER -> Undef

\* path.reduce((acc, key) => acc[key], instance)
RECURSIVE Reduce(_, _, _)
Reduce(h, acc, path) ==
  IF path = <<>> THEN acc ELSE Reduce(h, GetProp(h, acc, Head(path)), Tail(path))

\* the value the props object holds under key (undefined when it has none)
Lookup(props, key) ==
  IF \E i \in 1..Len(props) : props[i][1] = key
  THEN props[CHOOSE i \in 1..Len(props) : props[i][1] = key][2]
  ELSE Undef

\* the body of applyProps' forEach for one entry: the heap afterwards, or a TypeError
ApplyEntry(h, key, value) ==
  LET entries == Split(key)
      dotted == Len(entries) > 1
      target == IF dotted THEN Reduce(h, Obj("inst"), entries) ELSE h["inst"][key]
      \* the target is atomic: switch the root
      switch == dotted /\ Truthy(target) /\ ~HasSet(target)
      root == IF switch THEN Reduce(h, Obj("inst"), SubSeq(entries, 1, Len(entries) - 1))
              ELSE Obj("inst")
      name == IF switch THEN entries[Len(entries)] ELSE key
  IN IF target = TypeError THEN [heap |-> h, threw |-> TRUE]
     ELSE IF Truthy(target) /\ HasSet(target)
     THEN \* target.copy(value) for a value of the same class, else target.set(value)
          [heap |-> [h EXCEPT ![target[2]] =
                       IF HasSet(value) THEN [@ EXCEPT !["x"] = h[value[2]]["x"],
                                                       !["y"] = h[value[2]]["y"]]
                       ELSE [@ EXCEPT !["x"] = value, !["y"] = Undef]],
           threw |-> FALSE]
     ELSE \* root[key] = value
          [heap |-> [h EXCEPT ![root[2]][name] = value], threw |-> FALSE]

\* Object.entries(filteredProps).forEach(...): stops at the first TypeError
RECURSIVE ApplyEntries(_, _)
ApplyEntries(h, entries) ==
  IF entries = <<>> THEN [heap |-> h, threw |-> FALSE]
  ELSE LET one == ApplyEntry(h, Head(entries)[1], Head(entries)[2])
       IN IF one.threw THEN one ELSE ApplyEntries(one.heap, Tail(entries))

\* handlers.reduce((acc, key) => ({ ...acc, [name]: newProps[key] }), {})
RECURSIVE BuildHandlers(_, _)
BuildHandlers(handlers, acc) ==
  IF handlers = <<>> THEN acc
  ELSE BuildHandlers(Tail(handlers),
                     [acc EXCEPT ![HandlerName(Head(handlers)[1])] = Head(handlers)[2]])

NoHandlers == [present |-> FALSE, table |-> [n \in HandlerNames |-> Undef]]

\* applyProps(instance, newProps, oldProps): the heap and the handler table
\* afterwards, the update handlers called, and whether a TypeError ended it
ApplyProps(h, table, newProps, oldProps) ==
  LET same(e) == e[2] = Lookup(oldProps, e[1])
      isHandler(e) == e[2][1] = "fn" /\ StartsWithOn(e[1])
      kept(e) == ~same(e) /\ ~isHandler(e) /\ e[1] \notin {"children", "key", "ref"}
      handlers == SelectSeq(newProps, isHandler)
      filteredProps == SelectSeq(newProps, kept)
      done == ApplyEntries(h, filteredProps)
      built == [present |-> TRUE,
                table |-> BuildHandlers(handlers, [n \in HandlerNames |-> Undef])]
  IN IF filteredProps = <<>>
     THEN [heap |-> h, table |-> table, calls |-> <<>>, threw |-> FALSE]
     ELSE IF done.threw
     THEN [heap |-> done.heap, table |-> table, calls |-> <<>>, threw |-> TRUE]
     ELSE IF handlers # <<>>
     THEN [heap |-> done.heap, table |-> built,
           calls |-> IF Truthy(built.table["update"]) THEN <<built.table["update"]>> ELSE <<>>,
           threw |-> FALSE]
     ELSE [heap |-> done.heap, table |-> table, calls |-> <<>>, threw |-> FALSE]

\* the values a key is given in the model
ValuesOf(key) ==
  CASE key = "position-x" -> {Num(n) : n \in 0..MaxNum}
    [] key = "position" -> {Vec("val"), Num(1)}
    [] key = "visible" -> {Num(0), Num(1)}
    [] key \in {"onClick", "onUpdate"} -> {Fn(f) : f \in Callbacks}
    [] OTHER -> {Num(1)}

\* the props objects over a set of keys: no key, one key, or two keys in either order
PropEntries(keys) == UNION {{<<key, v>> : v \in ValuesOf(key)} : key \in keys}
PropObjects(keys) ==
  {<<>>} \cup {<<e>> : e \in PropEntries(keys)}
         \cup {<<p[1], p[2]>> : p \in {q \in PropEntries(keys) \X PropEntries(keys) : q[1][1] # q[2][1]}}

\* a new THREE.Object3D: position is a vector at the origin, visible is set
InitProps ==
  /\ heap = [o \in ObjIds |->
               CASE o = "inst" -> [f \in FieldNames |->
                                     CASE f = "position" -> Vec("pos")
                                       [] f = "visible" -> Num(1)
                                       [] OTHER -> Undef]
                 [] o = "pos" -> [f \in FieldNames |-> IF f \in {"x", "y"} THEN Num(0) ELSE Undef]
                 [] OTHER -> [f \in FieldNames |-> IF f \in {"x", "y"} THEN Num(1) ELSE Undef]]
  /\ handlerTable = NoHandlers
  /\ lastProps = <<>>
  /\ updateCalls = <<>>
  /\ propsThrew = FALSE
  /\ propsOp = "init"

PropsIdle == InitProps

\* commitUpdate(instance, ..., oldProps, newProps) on the Object3D, and
\* createInstance's applyProps(instance, props, {}) when nothing was rendered yet
CommitUpdateObject(newProps) ==
  /\ LET r == ApplyProps(heap, handlerTable, newProps, lastProps)
     IN /\ heap' = r.heap
        /\ handlerTable' = r.table
        /\ updateCalls' = r.calls
        /\ propsThrew' = r.threw
  /\ lastProps' = newProps
  /\ propsOp' = "applyProps"
  /\ UNCHANGED notProps

\* updates that change plain and dotted props
NextProps == \E newProps \in PropObjects(FieldKeys) : CommitUpdateObject(newProps)

\* updates that change handler props and one plain prop
NextHandlers == \E newProps \in PropObjects(HandlerKeys) : CommitUpdateObject(newProps)

(***************************************************************************)
(* The root table: render and unmountComponentAtNode.                      *)
(***************************************************************************)
Containers == {"sceneA", "sceneB"}
Elements == {"app", "other"}

\* roots.get(container) is not undefined
RootsHas(table, container) == \E e \in table : e[1] = container

\* roots.get(container), for a container that has an entry
RootsGet(table, container) == (CHOOSE e \in table : e[1] = container)[2]

\* roots.set(container, root) that adds an entry without replacing one
RootsAdd(table, container, root) == table \cup {<<container, root>>}

\* roots.set(container, root)
RootsSet(table, container, root) ==
  {e \in table : e[1] # container} \cup {<<container, root>>}

\* roots.delete(container)
RootsDelete(table, container) == {e \in table : e[1] # container}

InitRoots ==
  /\ roots = {}
  /\ rootElement = [r \in {} |-> "none"]
  /\ deleting = {}
  /\ nextRoot = 1
  /\ rootLast = [op |-> "init", container |-> "none", element |-> "none"]

RootsIdle == InitRoots

\* a render that makes a root whether or not the container has one
RenderAlwaysCreate(container, element) ==
  /\ nextRoot <= MaxRoots
  /\ roots' = RootsAdd(roots, container, nextRoot)
  /\ nextRoot' = nextRoot + 1
  /\ rootElement' = (nextRoot :> element) @@ rootElement
  /\ rootLast' = [op |-> "render", container |-> container, element |-> element]
  /\ UNCHANGED deleting
  /\ UNCHANGED notRoots

\* render(element, container)
Render(container, element) ==
  /\ LET root == RootsGet(roots, container)
     IN IF ~RootsHas(roots, container)
        THEN /\ nextRoot <= MaxRoots
             /\ roots' = RootsSet(roots, container, nextRoot)
             /\ nextRoot' = nextRoot + 1
             /\ rootElement' = (nextRoot :> element) @@ rootElement
        ELSE /\ rootElement' = [rootElement EXCEPT ![root] = element]
             /\ UNCHANGED <<roots, nextRoot>>
  /\ rootLast' = [op |-> "render", container |-> container, element |-> element]
  /\ UNCHANGED deleting
  /\ UNCHANGED notRoots

\* unmountComponentAtNode(container): the root is emptied, and roots.delete
\* is handed to the update as its callback
UnmountComponentAtNode(container) ==
  /\ LET root == RootsGet(roots, container)
     IN IF ~RootsHas(roots, container)
        THEN UNCHANGED <<rootElement, deleting>>
        ELSE /\ rootElement' = [rootElement EXCEPT ![root] = "null"]
             /\ deleting' = deleting \cup {container}
  /\ rootLast' = [op |-> "unmount", container |-> container, element |-> "none"]
  /\ UNCHANGED <<roots, nextRoot>>
  /\ UNCHANGED notRoots

\* the emptying update is committed: its callback () => roots.delete(container) runs
DeleteCallback(container) ==
  /\ container \in deleting
  /\ deleting' = deleting \ {container}
  /\ roots' = RootsDelete(roots, container)
  /\ rootLast' = [op |-> "deleted", container |-> container, element |-> "none"]
  /\ UNCHANGED <<rootElement, nextRoot>>
  /\ UNCHANGED notRoots

NextRoots ==
  \/ \E container \in Containers, element \in Elements : Render(container, element)
  \/ \E container \in Containers : UnmountComponentAtNode(container)
  \/ \E container \in Containers : DeleteCallback(container)

(***************************************************************************)
(* The specifications: one per component, the other components at rest.    *)
(***************************************************************************)
InitSpecLoop == InitLoop /\ PickIdle /\ TreeIdle /\ PropsIdle /\ RootsIdle

SpecLoop == InitSpecLoop /\ [][NextLoop]_vars

\* the host runs every frame callback it was asked for: requestAnimationFrame
\* callbacks are delivered while the page is shown
FairTicks == WF_vars(\E thrower \in 0..(MaxSubs + 3) : Tick(thrower))

SpecLoopFair == InitSpecLoop /\ [][NextLoop]_vars /\ FairTicks

InitSpecPick == LoopIdle /\ InitPick /\ TreeIdle /\ PropsIdle /\ RootsIdle

SpecPick == InitSpecPick /\ [][NextPick]_vars

InitSpecTree == LoopIdle /\ PickIdle /\ TreeIdle /\ PropsIdle /\ RootsIdle

SpecTree == InitSpecTree /\ [][NextTree]_vars

InitSpecLeaf == LoopIdle /\ PickIdle /\ InitTree /\ PropsIdle /\ RootsIdle

SpecLeaf == InitSpecLeaf /\ [][NextLeaf]_vars

InitSpecProps == LoopIdle /\ PickIdle /\ TreeIdle /\ InitProps /\ RootsIdle

SpecProps == InitSpecProps /\ [][NextProps]_vars

InitSpecRoots == LoopIdle /\ PickIdle /\ TreeIdle /\ PropsIdle /\ InitRoots

SpecRoots == InitSpecRoots /\ [][NextRoots]_vars

InitSpecHandlers == LoopIdle /\ PickIdle /\ TreeIdle /\ InitProps /\ RootsIdle

SpecHandlers == InitSpecHandlers /\ [][NextHandlers]_vars

(***************************************************************************)
(* Claims about pointer picking, checked under SpecPick.                   *)
(***************************************************************************)

\* C1: an object with a hover handler that is in the intersection list of
\* consecutive move events receives hover exactly once on the first of them
\* (the move before did not hit it) and no hover call on the following ones.
C1_HoverOnce ==
  pickLast[1] = "move" =>
    \A n \in Nodes :
      ("hover" \in handlersOf[n] /\ n \in curHits) =>
        Count(hoverLog, n) = (IF n \in prevHits THEN 0 ELSE 1)

\* C2: an object that has received hover and has an unhover handler receives
\* unhover exactly once, on the first move event whose intersection list does
\* not contain it, and no unhover call on any other event.
C2_UnhoverOnce ==
  \A n \in Nodes :
    Count(unhoverLog, n) =
      (IF pickLast[1] = "move" /\ n \in litPre /\ n \notin curHits
          /\ "unhover" \in handlersOf[n]
       THEN 1 ELSE 0)

\* C9: one click event calls the click handler of every object that has one
\* and occurs in the intersection list exactly once, with the first hit of
\* that object, and calls no other click handler; the calls do not depend on
\* the hovered map, and the click changes neither it nor calls hover or unhover.
C9_ClickOncePerNode ==
  pickLast[1] = "click" =>
    LET hits == pickLast[2]
    IN /\ \A n \in Nodes :
            IF n \in Range(hits) /\ "click" \in handlersOf[n]
            THEN /\ Count(clickLog, n) = 1
                 /\ \E i \in 1..Len(clickLog) : clickLog[i] = <<n, IndexOf(hits, n)>>
            ELSE Count(clickLog, n) = 0
       /\ hovered = pickPre
       /\ hoverLog = <<>>
       /\ unhoverLog = <<>>

\* C9 witness: a click whose list holds the same object twice; its click
\* handler ran, while another object is hovered.
C9_Witness ==
  /\ pickLast[1] = "click"
  /\ Len(pickLast[2]) = 2
  /\ pickLast[2][1] = pickLast[2][2]
  /\ clickLog = << <<pickLast[2][1], 1>> >>
  /\ hovered # <<>>

(***************************************************************************)
(* Claims about the scene graph, checked under SpecTree and SpecLeaf.      *)
(***************************************************************************)

\* the places an object occupies in the child lists of the scene graph
Occurrences(n) ==
  {pi \in Objects \X (1..MaxChildren) :
     pi[2] <= Len(children[pi[1]]) /\ children[pi[1]][pi[2]] = n}

\* C4: after any sequence of appendChild, insertBefore and removeChild
\* requests (a reorder is an insertBefore of a child that is already there)
\* every object is in at most one child list, at most once, and its parent
\* field names the object whose list holds it.
C4_SingleMembership ==
  \A n \in Objects :
    /\ Cardinality(Occurrences(n)) <= 1
    /\ \A pi \in Occurrences(n) : parentOf[n] = pi[1]

\* C5: insertBefore(parent, X, Y) for an object X that is not in parent's
\* child list and a reference Y that is in it yields the children before Y,
\* then X, then Y, then the children after Y, and X's parent is parent.
C5_InsertBeforeOrder ==
  (/\ treeLast.op = "insertBefore"
   /\ treeLast.child \in Objects
   /\ treeLast.child \notin Range(treePre)
   /\ treeLast.before \in Range(treePre)) =>
     LET at == IndexOf(treePre, treeLast.before)
     IN /\ children[treeLast.parent] =
             SubSeq(treePre, 1, at - 1) \o <<treeLast.child, treeLast.before>>
               \o SubSeq(treePre, at + 1, Len(treePre))
        /\ parentOf[treeLast.child] = treeLast.parent

\* C5 witness: X was inserted before a reference that had a child in front of it.
C5_Witness ==
  /\ treeLast.op = "insertBefore"
  /\ treeLast.child \in Objects
  /\ treeLast.child \notin Range(treePre)
  /\ Len(treePre) = 2
  /\ treePre[1] # treePre[2]
  /\ treeLast.before = treePre[2]
  /\ Len(children[treeLast.parent]) = 3

\* C8: a commitUpdate of the data object whose construction arguments changed
\* constructs one replacement and removes the old instance once; afterwards
\* the same placeholder holds a new resource, its parent is the parent it had
\* before, the parent's field of the data object's name refers to the new
\* resource, and no field of the parent refers to the old one.
C8_Reinstantiate ==
  (treeLast.op = "commitUpdate" /\ treePre.props.args # leafProps.args) =>
     /\ treeLast.created = 1
     /\ treeLast.removed = 1
     /\ leafCurrent # treePre.current
     /\ leafParent = treePre.parent
     /\ leafParent \in Objects
     /\ field[leafParent][leafProps.name] = leafCurrent
     /\ \A n \in Names : field[leafParent][n] # treePre.current

(***************************************************************************)
(* Claims about the frame loop, checked under SpecLoop.                    *)
(***************************************************************************)

\* C3: after the unsubscribe function returned by subscribe(fn) is called, fn
\* is not in the subscriber list, the other subscribers are all still there in
\* their original order, and no later tick invokes fn until it is subscribed
\* again.
C3_UnsubscribeRemovesOnlyFn ==
  /\ loopLast[1] = "unsubscribe" =>
       LET other(s) == s # loopLast[2]
       IN subscribers = SelectSeq(loopPre, other)
  /\ loopLast[1] = "tick" =>
       \A f \in removed : EvSub(f) \notin Range(tickLog)

\* C6: once the loop is deactivated it stays deactivated, and a tick that
\* fires afterwards calls nothing (no hook, no subscriber, no draw) and
\* requests no further frame: the number of pending frames only goes down.
C6_StoppedForGood ==
  [][~active =>
       /\ ~active'
       /\ scheduled' <= scheduled
       /\ loopLast'[1] = "tick" => (tickLog' = <<>> /\ scheduled' = scheduled - 1)]_vars

\* C6 witness: a tick has fired after deactivation, with subscribers registered.
C6_Witness ==
  /\ ~active
  /\ lifecycle = "unmounted"
  /\ loopLast[1] = "tick"
  /\ subscribers # <<>>

\* the calls C7 requires of a tick that runs while the loop is active
C7_Expected ==
  <<EvRaf>>
    \o (IF hasOnUpdate THEN <<EvOnUpdate>> ELSE <<>>)
    \o [i \in 1..Len(subscribers) |-> EvSub(subscribers[i])]
    \o <<IF hasRenderFn THEN EvRenderFn ELSE EvGlRender>>

\* C7: a tick that runs while the loop is active requests the next frame,
\* then calls the per-frame hook if there is one, then every subscriber once
\* in registration order, then draws exactly once (the custom draw if
\* supplied, the default draw otherwise). A tick cut short by a throwing
\* callback has made the calls up to the throwing one, in that same order.
C7_TickOrder ==
  (loopLast[1] = "tick" /\ active) =>
     /\ tickLog # <<>>
     /\ tickLog[1] = EvRaf
     /\ IsPrefix(tickLog, C7_Expected)
     /\ ~tickThrew => tickLog = C7_Expected

\* C7 witness: a complete tick with a hook and two different subscribers.
C7_Witness ==
  /\ loopLast[1] = "tick"
  /\ active
  /\ ~tickThrew
  /\ hasOnUpdate
  /\ Len(subscribers) >= 2
  /\ subscribers[1] # subscribers[2]
  /\ Len(tickLog) = Len(subscribers) + 3

(***************************************************************************)
(* Claims about applyProps.                                                *)
(***************************************************************************)
\* the step applies exactly the one prop "position-x" = v, changed against the
\* old props, to a target whose position is its vector and whose position.x is
\* a number
DottedStep(v) ==
  /\ propsOp' = "applyProps"
  /\ lastProps' = <<<<"position-x", Num(v)>>>>
  /\ Lookup(lastProps, "position-x") # Num(v)
  /\ heap["inst"]["position"] = Vec("pos")
  /\ heap["pos"]["x"][1] = "num"

\* C10: applyProps with the dotted key "position-x", whatever number
\* target.position.x currently holds (0 included), sets target.position.x to
\* the new value, keeps target.position the same object, and creates or
\* changes no other field of the target, in particular no field "position-x".
C10_DottedKeySetsScalar ==
  [][\A v \in 0..MaxNum :
       DottedStep(v) =>
         /\ heap'["pos"]["x"] = Num(v)
         /\ heap'["inst"] = heap["inst"]
         /\ heap'["pos"] = [heap["pos"] EXCEPT !["x"] = Num(v)]]_vars

\* every key of newProps holds the same value in oldProps (so also: newProps is empty)
AllSame(newProps, oldProps) ==
  \A i \in 1..Len(newProps) : newProps[i][2] = Lookup(oldProps, newProps[i][1])

\* the step is a no-op call: the target is as it was
NoOpWhenSame ==
  (propsOp' = "applyProps" /\ AllSame(lastProps', lastProps)) =>
     (heap' = heap /\ handlerTable' = handlerTable)

\* the same call once more on the target the step left: the target is as the step left it
SecondCallSame ==
  propsOp' = "applyProps" =>
     LET again == ApplyProps(heap', handlerTable', lastProps', lastProps)
     IN again.heap = heap' /\ again.table = handlerTable'

\* C11: applyProps(target, newProps, oldProps) changes nothing on the target
\* when newProps is empty or every key of newProps has the same value in
\* oldProps, and applying the same newProps a second time leaves the target as
\* the first application left it.
C11_NoOpAndIdempotent == [][NoOpWhenSame /\ SecondCallSame]_vars

\* C12: after any sequence of createInstance, appendChild, insertBefore,
\* removeChild and commitUpdate requests, every element of every structural
\* child list is an Object3D: neither the data object's placeholder nor an
\* underlying resource is in one.
C12_NoLeafInChildren ==
  \A p \in Objects : \A i \in 1..Len(children[p]) :
     children[p][i] \in Objects /\ children[p][i] \notin Leaves

\* the data object is mounted and was re-instantiated next to a mesh
C12_Witness ==
  /\ treeLast.op = "commitUpdate" /\ treeLast.created = 1
  /\ leafParent = "group" /\ field["group"][resName] = leafCurrent
  /\ children["group"] # <<>>

\* C13: commitUpdate on a data object re-instantiates the underlying resource
\* exactly when the old and the new construction-argument lists differ (an
\* element differs, or the new list is longer or shorter); when they are equal
\* it constructs nothing and applies the other props to the existing resource.
C13_ReinstantiateIffArgsDiffer ==
  treeLast.op = "commitUpdate" =>
     /\ (treeLast.created = 1) <=> (treePre.props.args # leafProps.args)
     /\ treePre.props.args = leafProps.args =>
          /\ treeLast.created = 0
          /\ leafCurrent = treePre.current
          /\ resName = leafProps.name

\* the props hold at least one handler prop
HasHandlerProp(props) ==
  \E i \in 1..Len(props) : props[i][2][1] = "fn" /\ StartsWithOn(props[i][1])

\* C14: after any sequence of applyProps / commitUpdate calls on a node, the
\* node carries a handler table only if its current props hold a handler prop:
\* once an update has removed every handler prop the node has no table and
\* intersect skips it, so no hover, unhover or click is dispatched to it.
C14_TableOnlyWithHandlers ==
  (propsOp = "applyProps" /\ ~HasHandlerProp(lastProps)) =>
     /\ ~handlerTable.present
     /\ Intersect(<<"meshA">>, [n \in Nodes |-> handlerTable.present], 1) = <<>>

\* some handler prop of newProps holds a callback that differs from oldProps'
HandlerChanged(newProps, oldProps) ==
  \E i \in 1..Len(newProps) :
     /\ newProps[i][2][1] = "fn" /\ StartsWithOn(newProps[i][1])
     /\ newProps[i][2] # Lookup(oldProps, newProps[i][1])

\* the callback the handler props of newProps give the event kind (undefined if none)
CallbackFor(newProps, kind) ==
  IF \E i \in 1..Len(newProps) :
        newProps[i][2][1] = "fn" /\ StartsWithOn(newProps[i][1]) /\ HandlerName(newProps[i][1]) = kind
  THEN newProps[CHOOSE i \in 1..Len(newProps) :
                  newProps[i][2][1] = "fn" /\ StartsWithOn(newProps[i][1])
                     /\ HandlerName(newProps[i][1]) = kind][2]
  ELSE Undef

\* the step's call changed a handler prop: the table is the current handler
\* props, and its update entry was called once
TableRebuilt ==
  (propsOp' = "applyProps" /\ HandlerChanged(lastProps', lastProps)) =>
     /\ handlerTable'.present
     /\ \A kind \in HandlerNames : handlerTable'.table[kind] = CallbackFor(lastProps', kind)
     /\ updateCalls' = IF CallbackFor(lastProps', "update") = Undef THEN <<>>
                       ELSE <<CallbackFor(lastProps', "update")>>

\* C15: whenever an applyProps call changes at least one handler prop, also
\* when no other prop changed, the handler table afterwards maps exactly the
\* current handler props of newProps (prefix stripped, first character
\* lower-cased) to their callbacks, and its update entry is invoked once.
C15_HandlersRebuilt == [][TableRebuilt]_vars

\* the step mounted the data object: its parent is the one named, the parent's
\* field of the resource's name is the resource, the child lists are as before
LeafMounted ==
  (treeLast'.op \in {"appendChild", "insertBefore"} /\ treeLast'.child = "leaf") =>
     /\ leafParent' = treeLast'.parent
     /\ field'[treeLast'.parent][resName'] = leafCurrent'
     /\ children' = children

\* C16: after appendChild(parent, leaf) or insertBefore(parent, leaf, ref) with
\* a data object as the child, the leaf's parent back-reference is parent, the
\* field of parent named by the leaf's name refers to the leaf's underlying
\* resource, and the parent's structural child list is unchanged.
C16_LeafMounted == [][LeafMounted]_vars

\* the requested child order of p, restricted to the Object3D children
RequestedObjects(p) == LET isObject(c) == c \in Objects IN SelectSeq(logical[p], isObject)

\* C17: after any sequence of appendChild, insertBefore and removeChild
\* requests on a parent whose children mix Object3Ds and data objects (the
\* reference child of an insertBefore may be a data object), the parent's
\* structural child list is exactly the requested child order restricted to
\* the Object3D children.
C17_OrderAsRequested == \A p \in Objects : children[p] = RequestedObjects(p)

\* the step's call applies the key "foo-x", changed against the old props;
\* the target has no field foo
InvalidPathStep ==
  /\ propsOp' = "applyProps"
  /\ \E i \in 1..Len(lastProps') :
        lastProps'[i][1] = "foo-x" /\ lastProps'[i][2] # Lookup(lastProps, "foo-x")
  /\ heap["inst"]["foo"] = Undef

\* C18: applyProps with a dotted key whose intermediate segment does not exist
\* on the target (the key being one the call applies) ends with an error
\* instead of completing, and writes no field for that key: no object gets a
\* field "foo-x" or "foo", and the target gets no field "x".
C18_InvalidPathThrows ==
  [][InvalidPathStep =>
       /\ propsThrew'
       /\ \A o \in ObjIds : heap'[o]["foo-x"] = heap[o]["foo-x"] /\ heap'[o]["foo"] = heap[o]["foo"]
       /\ heap'["inst"]["x"] = heap["inst"]["x"]]_vars

\* a call that applied visible and then failed on "foo-x"
C18_Witness ==
  /\ propsOp = "applyProps" /\ propsThrew
  /\ lastProps = <<<<"visible", Num(0)>>, <<"foo-x", Num(1)>>>>
  /\ heap["inst"]["visible"] = Num(0)
  /\ heap["inst"]["foo-x"] = Undef

\* C19: while the loop is active, a tick in which the per-frame hook, a
\* subscriber or the draw step throws still leaves the next tick scheduled, so
\* when the host delivers the frames it was asked for, another tick follows
\* every such tick unless the loop is deactivated.
C19_TicksKeepComing ==
  /\ [](tickThrew /\ active => scheduled >= 1)
  /\ \A b \in BOOLEAN : (tickThrew /\ active /\ frame = b) ~> (~active \/ frame # b)

\* a tick threw while the loop is active and the next frame is asked for
C19_Witness == tickThrew /\ active /\ frame /\ scheduled >= 1 /\ lifecycle = "mounted"

(***************************************************************************)
(* Claims about the root table.                                            *)
(***************************************************************************)
\* no container has two entries in the table
OneRootPerContainer == \A e1, e2 \in roots : e1[1] = e2[1] => e1 = e2

\* what a render call does: a root is made only for a container without one,
\* else the container's root is kept and given the element
RenderStep ==
  rootLast'.op = "render" =>
     LET container == rootLast'.container
         root == RootsGet(roots, container)
     IN IF ~RootsHas(roots, container)
        THEN /\ nextRoot' = nextRoot + 1
             /\ RootsHas(roots', container)
             /\ RootsGet(roots', container) = nextRoot
             /\ rootElement'[nextRoot] = rootLast'.element
        ELSE /\ nextRoot' = nextRoot
             /\ roots' = roots
             /\ rootElement'[root] = rootLast'.element

\* unmounting a container that has no root changes nothing
UnmountNothing ==
  (rootLast'.op = "unmount" /\ ~RootsHas(roots, rootLast'.container)) =>
     UNCHANGED <<roots, rootElement, deleting, nextRoot>>

\* C20: after any sequence of render(element, container) and
\* unmountComponentAtNode(container) calls the root table holds at most one
\* root per container: render creates a root only when the container has
\* none and otherwise updates the existing root, and unmounting a container
\* that has no root does nothing.
C20_OneRootPerContainer ==
  [][OneRootPerContainer' /\ RenderStep /\ UnmountNothing]_vars

\* a container was rendered again into its existing root while another
\* container's root had been unmounted and deleted
C20_Witness ==
  /\ rootLast.op = "render"
  /\ nextRoot = 3
  /\ Cardinality(roots) = 1
  /\ \E e \in roots : rootElement[e[2]] = "other"

====
